---- MODULE Spec2Model ----
(***************************************************************************)
(* A model of the Enviratron filename parser                               *)
(* (enviratron_filename_parser.py) and of the image pipeline's main loop   *)
(* (make_images_from_numpy_data.py).                                       *)
(*                                                                         *)
(* Paths and filenames are strings; they are cut, matched and parsed       *)
(* character by character, as the Python code does it.  A Python           *)
(* attribute that was never assigned is Unset, one that holds None is      *)
(* None, an integer n is IntV(n) and an integer outside the range of a C   *)
(* int is Huge (its exact value is not kept).                              *)
(***************************************************************************)
EXTENDS Integers, Sequences, FiniteSets, TLC

VARIABLES
    path,                \* the argument of EnviratronFileNameParser(...)
    pc,                  \* the constructor's position
    self,                \* the object under construction (its attributes)
    walk,                \* main: what os.walk yields, <<root, filename>> in order
    overwrite_existing,  \* main: the flag
    pos,                 \* main: how many files of walk the loop has taken
    out_dirs,            \* main: output directories that exist
    out_files,           \* main: output image paths that exist
    log,                 \* main: per file taken, what the loop body did
    mainpc               \* main: "loop", "done" or "raised"

parser_vars == <<path, pc, self>>
main_vars == <<walk, overwrite_existing, pos, out_dirs, out_files, log, mainpc>>
vars == <<path, pc, self, walk, overwrite_existing, pos, out_dirs, out_files, log, mainpc>>

---------------------------------------------------------------------------
(* Python values *)

Unset == [k |-> "unset", n |-> 0]
None == [k |-> "None", n |-> 0]
IntV(v) == [k |-> "int", n |-> v]
Huge(sign) == [k |-> "huge", n |-> sign]
IsSet(v) == v.k \in {"int", "huge"}

---------------------------------------------------------------------------
(* str methods *)

Char(s, i) == SubSeq(s, i, i)

Positions(s, c) == {i \in 1..Len(s) : Char(s, i) = c}

FirstPos(s, c) ==
    LET I == Positions(s, c)
    IN IF I = {} THEN 0 ELSE CHOOSE i \in I : \A j \in I : i <= j

LastPos(s, c) ==
    LET I == Positions(s, c)
    IN IF I = {} THEN 0 ELSE CHOOSE i \in I : \A j \in I : j <= i

\* s.split(c): every piece, empty ones included
RECURSIVE Split(_, _)
Split(s, c) ==
    LET k == FirstPos(s, c)
    IN IF k = 0 THEN <<s>>
       ELSE <<SubSeq(s, 1, k - 1)>> \o Split(SubSeq(s, k + 1, Len(s)), c)

\* s.rsplit(c, 1): cut at the last c, one piece when there is none
RSplit1(s, c) ==
    LET k == LastPos(s, c)
    IN IF k = 0 THEN <<s>>
       ELSE <<SubSeq(s, 1, k - 1), SubSeq(s, k + 1, Len(s))>>

\* s.split(c, 1)[0]: what precedes the first c
BeforeFirst(s, c) ==
    LET k == FirstPos(s, c)
    IN IF k = 0 THEN s ELSE SubSeq(s, 1, k - 1)

\* sub in s
Contains(s, sub) ==
    \E i \in 1..(Len(s) - Len(sub) + 1) : SubSeq(s, i, i + Len(sub) - 1) = sub

\* s.replace(old, new): every non-overlapping occurrence, left to right
RECURSIVE Replace(_, _, _)
Replace(s, old, new) ==
    IF Len(s) < Len(old) THEN s
    ELSE IF SubSeq(s, 1, Len(old)) = old
         THEN new \o Replace(SubSeq(s, Len(old) + 1, Len(s)), old, new)
         ELSE Char(s, 1) \o Replace(Tail(s), old, new)

\* s.rstrip(chars): drops every trailing character that is one of chars
RECURSIVE RStrip(_, _)
RStrip(s, chars) ==
    IF s # "" /\ Positions(chars, Char(s, Len(s))) # {}
    THEN RStrip(SubSeq(s, 1, Len(s) - 1), chars)
    ELSE s

\* fnmatch.fnmatch(name, pat) for patterns of literals, * and ?, on a system
\* whose os.path.normcase keeps the case (POSIX)
RECURSIVE fnmatch(_, _)
fnmatch(name, pat) ==
    IF pat = "" THEN name = ""
    ELSE IF Head(pat) = "*"
         THEN fnmatch(name, Tail(pat)) \/ (name # "" /\ fnmatch(Tail(name), pat))
         ELSE /\ name # ""
              /\ Head(pat) = "?" \/ Head(pat) = Head(name)
              /\ fnmatch(Tail(name), Tail(pat))

---------------------------------------------------------------------------
(* int(string), for strings of letters, digits, signs and dots (no blanks,  *)
(* no digit grouping: '_' never reaches int, the tokens are cut at it)      *)

Digits == {"0", "1", "2", "3", "4", "5", "6", "7", "8", "9"}

DigitVal(c) ==
    CASE c = "0" -> 0 [] c = "1" -> 1 [] c = "2" -> 2 [] c = "3" -> 3
      [] c = "4" -> 4 [] c = "5" -> 5 [] c = "6" -> 6 [] c = "7" -> 7
      [] c = "8" -> 8 [] c = "9" -> 9

Signed(s) == s # "" /\ Head(s) \in {"+", "-"}
Magnitude(s) == IF Signed(s) THEN Tail(s) ELSE s

\* int(s) does not raise ValueError
IsInt(s) ==
    LET m == Magnitude(s)
    IN m # "" /\ \A i \in 1..Len(m) : Char(m, i) \in Digits

RECURSIVE StripZeros(_)
StripZeros(m) == IF Len(m) > 1 /\ Head(m) = "0" THEN StripZeros(Tail(m)) ELSE m

RECURSIVE NatOf(_)
NatOf(m) == IF m = "" THEN 0
            ELSE 10 * NatOf(SubSeq(m, 1, Len(m) - 1)) + DigitVal(Char(m, Len(m)))

\* int(s) of a string with IsInt(s); Huge when the value is no C int
ParseInt(s) ==
    LET m == StripZeros(Magnitude(s))
        sign == IF Signed(s) /\ Head(s) = "-" THEN -1 ELSE 1
        n9 == NatOf(SubSeq(m, 1, 9))
        d == DigitVal(Char(m, 10))
    IN IF Len(m) <= 9 THEN IntV(sign * NatOf(m))
       ELSE IF Len(m) = 10 /\ (n9 < 214748364
                               \/ (n9 = 214748364 /\ d <= (IF sign = 1 THEN 7 ELSE 8)))
            THEN IntV(sign * n9 * 10 + sign * d)
            ELSE Huge(sign)

---------------------------------------------------------------------------
(* EnviratronFileNameParser *)

\* the object before __init__ has assigned anything; exc is the exception
\* that left the constructor, "" while there is none
NewObject ==
    [raw_filepath |-> "", type |-> "unset", raw_filename |-> "",
     file_extension |-> "", ints_list |-> <<>>,
     ordinal |-> Unset, chamber_id |-> Unset, datetime |-> Unset,
     year |-> Unset, month |-> Unset, day |-> Unset, hour |-> Unset,
     minute |-> Unset, seconds |-> Unset, second |-> Unset,
     height |-> Unset, width |-> Unset, bands |-> Unset, exc |-> ""]

Raise(o, e) == [o EXCEPT !.exc = e]

only_ints_filter(string) == IsInt(string)

\* [int(i) for i in filter(self._only_ints_filter, filename_list)]
ints_of(filename_list) ==
    LET kept == SelectSeq(filename_list, only_ints_filter)
    IN [i \in 1..Len(kept) |-> ParseInt(kept[i])]

\* __init__ up to the first parse_ call
init_fields(filepath) ==
    LET o == [NewObject EXCEPT !.raw_filepath = filepath, !.type = "None"]
        path_list == Split(filepath, "/")
        filename == path_list[Len(path_list)]
        parts == RSplit1(filename, ".")
    IN IF Len(parts) # 2
       THEN Raise(o, "ValueError")
       ELSE [o EXCEPT !.raw_filename = filename,
                      !.file_extension = parts[2],
                      !.ints_list = ints_of(Split(parts[1], "_"))]

parse_ordinal(o) ==
    LET ints_list ==
            IF o.ints_list # <<>> THEN o.ints_list
            ELSE ints_of(Split(BeforeFirst(o.raw_filename, "."), "_"))
        want == IF fnmatch(o.raw_filename, "hsr_*.*") THEN 2 ELSE 1
    IN IF want <= Len(ints_list)
       THEN [o EXCEPT !.ordinal = ints_list[want]]
       ELSE o

parse_chamber_id(o) ==
    LET path_list == Split(o.raw_filepath, "/")
        chamber_list == SelectSeq(path_list, LAMBDA s : Contains(s, "chamber_"))
        pieces == Split(chamber_list[1], "_")
        last == pieces[Len(pieces)]
    IN IF Len(chamber_list) > 0
       THEN IF IsInt(last) THEN [o EXCEPT !.chamber_id = ParseInt(last)]
            ELSE Raise(o, "ValueError")
       ELSE [o EXCEPT !.chamber_id = None]

IsLeap(y) == y % 4 = 0 /\ (y % 100 # 0 \/ y % 400 = 0)

DaysInMonth(y, m) ==
    IF m = 2 THEN (IF IsLeap(y) THEN 29 ELSE 28)
    ELSE IF m \in {4, 6, 9, 11} THEN 30 ELSE 31

\* datetime.datetime(y, m, d, H, M, S) does not raise ValueError
ValidDatetime(y, m, d, H, M, S) ==
    /\ y \in 1..9999 /\ m \in 1..12 /\ d >= 1 /\ d <= DaysInMonth(y, m)
    /\ H \in 0..23 /\ M \in 0..59 /\ S \in 0..59

\* the body of parse_datetime, reading the integers of ints_list
datetime_from(o, ints_list) ==
    LET cleared == [o EXCEPT !.datetime = None, !.year = None, !.month = None,
                             !.day = None, !.hour = None, !.minute = None,
                             !.seconds = None]
        a == [i \in 1..6 |-> ints_list[i + 1]]
    IN IF Len(ints_list) < 7 THEN cleared                         \* IndexError
       ELSE IF \E i \in 1..6 : a[i].k = "huge"
            THEN Raise(cleared, "OverflowError")
       ELSE IF ~ValidDatetime(a[1].n, a[2].n, a[3].n, a[4].n, a[5].n, a[6].n)
            THEN cleared                                          \* ValueError
       ELSE [cleared EXCEPT !.datetime = [k |-> "iso", n |-> <<a[1].n, a[2].n, a[3].n,
                                                              a[4].n, a[5].n, a[6].n>>],
                            !.year = a[1], !.month = a[2], !.day = a[3],
                            !.hour = a[4], !.minute = a[5], !.second = a[6]]

\* parse_datetime without the pruning of the hsr_ convention
parse_datetime_unpruned(o) == datetime_from(o, o.ints_list)

parse_datetime(o) ==
    datetime_from(o, IF fnmatch(o.raw_filename, "hsr_*.*") /\ o.ints_list # <<>>
                     THEN Tail(o.ints_list) ELSE o.ints_list)

filename_to_type_mapping ==
    << <<"*.pcd", "point cloud">>,
       <<"rgb_pose*.yml", "rgb pose">>,
       <<"rgb*.jpg", "rgb image">>,
       <<"PAM*.yml", "fluorometer pam">>,
       <<"ir_*.bin", "infrared">>,
       <<"depth_*.bin", "depth">>,
       <<"depth_pose_*.yml", "depth pose">>,
       <<"?_hs_rd_*.bin", "hyperspectral reference dark">>,
       <<"hsr_*_d_rp_*.bin", "hyperspectral reference dark">>,
       <<"?_hs_rw_*.bin", "hyperspectral reference white">>,
       <<"hsr_*_w_rp_*.bin", "hyperspectral reference white">>,
       <<"hs_*.bin", "hyperspectral">>,
       <<"?_hs_*_pose.csv", "hyperspectral pose">>,
       <<"hsr_*_pose.csv", "hyperspectral reference pose">>,
       <<"hsr_*.csv", "hyperspectral csv">>,
       <<"?_hs_*.csv", "hyperspectral csv">>,
       <<"thermo_pose_*.yml", "thermal pose">>,
       <<"thermo_*.bin", "thermal">>,
       <<"thermo_*.jpg", "thermal image">> >>

\* the for loop of parse_file_type without its break: the last match wins
RECURSIVE type_loop_no_break(_, _, _)
type_loop_no_break(filename, i, file_type) ==
    IF i > Len(filename_to_type_mapping) THEN file_type
    ELSE IF fnmatch(filename, filename_to_type_mapping[i][1])
         THEN type_loop_no_break(filename, i + 1, filename_to_type_mapping[i][2])
         ELSE type_loop_no_break(filename, i + 1, file_type)

\* the for loop of parse_file_type from entry i on, file_type being None so far
RECURSIVE type_loop(_, _, _)
type_loop(filename, i, file_type) ==
    IF i > Len(filename_to_type_mapping) THEN file_type
    ELSE IF fnmatch(filename, filename_to_type_mapping[i][1])
         THEN filename_to_type_mapping[i][2]
         ELSE type_loop(filename, i + 1, file_type)

parse_file_type(o) ==
    LET segs == Split(o.raw_filename, "/")
        filename == segs[Len(segs)]
    IN [o EXCEPT !.type = type_loop(filename, 1, "None")]

\* list.index(x) counted from 1; 0 stands for its ValueError
index(list, x) ==
    LET I == {i \in 1..Len(list) : list[i] = x}
    IN IF I = {} THEN 0 ELSE CHOOSE i \in I : \A j \in I : i <= j

\* len(list) - list[::-1].index(x) as a position counted from 1: the one that
\* follows the last x; 0 stands for the ValueError of index
index_after_last(list, x) ==
    LET I == {i \in 1..Len(list) : list[i] = x}
    IN IF I = {} THEN 0 ELSE (CHOOSE i \in I : \A j \in I : j <= i) + 1

\* int(filename_list[i]) where i = 0 stands for a ValueError already raised by
\* the index computation: the value, or the exception
int_at(filename_list, i) ==
    IF i = 0 THEN [res |-> "ValueError", v |-> Unset]
    ELSE IF i > Len(filename_list) THEN [res |-> "IndexError", v |-> Unset]
    ELSE IF ~IsInt(filename_list[i]) THEN [res |-> "ValueError", v |-> Unset]
    ELSE [res |-> "ok", v |-> ParseInt(filename_list[i])]

\* the filetypes whose height is known: the except branch of the height block
static_height(raw_filename, height) ==
    IF fnmatch(raw_filename, "thermo_*.jpg") THEN IntV(480)
    ELSE IF fnmatch(raw_filename, "thermo_*.bin") THEN IntV(480)
    ELSE IF fnmatch(raw_filename, "rgb_*.jpg") THEN IntV(1303)
    ELSE height

\* the except branch of the width block
static_width(raw_filename, width) ==
    IF fnmatch(raw_filename, "thermo_*.jpg") THEN IntV(640)
    ELSE IF fnmatch(raw_filename, "thermo_*.bin") THEN IntV(640)
    ELSE IF fnmatch(raw_filename, "rgb_*.jpg") THEN IntV(156)
    ELSE width

\* the Height block
dimensions_height(o, filename_list) ==
    LET r == int_at(filename_list, index_after_last(filename_list, "f"))
    IN IF r.res = "ok" THEN [o EXCEPT !.height = r.v]
       ELSE IF r.res = "ValueError"
            THEN [o EXCEPT !.height = static_height(o.raw_filename, @)]
       ELSE Raise(o, r.res)

\* the Width block
dimensions_width(o, filename_list) ==
    LET r == int_at(filename_list, index_after_last(filename_list, "w"))
    IN IF r.res = "ok" THEN [o EXCEPT !.width = r.v]
       ELSE IF r.res = "ValueError"
            THEN [o EXCEPT !.width = static_width(o.raw_filename, @)]
       ELSE Raise(o, r.res)

\* the try and except of the Hyperspectral Bands block
bands_after_first_h(o, filename_list) ==
    LET i == index(filename_list, "h")
        r == int_at(filename_list, IF i = 0 THEN 0 ELSE i + 1)
    IN IF r.res = "ok" THEN [o EXCEPT !.bands = r.v]
       ELSE IF r.res = "ValueError" THEN [o EXCEPT !.bands = IntV(56)]
       ELSE Raise(o, r.res)

\* the Hyperspectral Bands block without its test of the filename
dimensions_bands_unguarded(o, filename_list) == bands_after_first_h(o, filename_list)

\* the Hyperspectral Bands block
dimensions_bands(o, filename_list) ==
    IF fnmatch(o.raw_filename, "hs*.bin") \/ fnmatch(o.raw_filename, "hs_*.npy")
    THEN bands_after_first_h(o, filename_list)
    ELSE o

\* the Special case block
dimensions_bands_special(o, filename_list) ==
    IF fnmatch(o.raw_filename, "*_hs_r*.bin")
    THEN LET r == int_at(filename_list, index_after_last(filename_list, "h"))
         IN IF r.res = "ok" THEN [o EXCEPT !.bands = r.v]
            ELSE IF r.res = "IndexError" THEN [o EXCEPT !.bands = IntV(56)]
            ELSE Raise(o, r.res)
    ELSE o

\* one block of parse_physical_dimensions
dimension_block(name, o, filename_list) ==
    CASE name = "Height" -> dimensions_height(o, filename_list)
      [] name = "Width" -> dimensions_width(o, filename_list)
      [] name = "Hyperspectral Bands" -> dimensions_bands(o, filename_list)
      [] name = "Special case" -> dimensions_bands_special(o, filename_list)

\* the blocks in order; an exception leaves the method at once
RECURSIVE dimension_blocks(_, _, _)
dimension_blocks(names, o, filename_list) ==
    IF names = <<>> \/ o.exc # "" THEN o
    ELSE dimension_blocks(Tail(names), dimension_block(Head(names), o, filename_list),
                          filename_list)

parse_physical_dimensions(o) ==
    dimension_blocks(<<"Height", "Width", "Hyperspectral Bands", "Special case">>, o,
                     Split(BeforeFirst(o.raw_filename, "."), "_"))

\* one of the calls __init__ makes
parse_call(name, o) ==
    CASE name = "parse_ordinal" -> parse_ordinal(o)
      [] name = "parse_chamber_id" -> parse_chamber_id(o)
      [] name = "parse_datetime" -> parse_datetime(o)
      [] name = "parse_file_type" -> parse_file_type(o)
      [] name = "parse_physical_dimensions" -> parse_physical_dimensions(o)

\* the calls in order; an exception leaves __init__ at once
RECURSIVE parse_calls(_, _)
parse_calls(names, o) ==
    IF names = <<>> \/ o.exc # "" THEN o
    ELSE parse_calls(Tail(names), parse_call(Head(names), o))

\* EnviratronFileNameParser(filepath): the object __init__ leaves, with exc
\* the exception it raised, if any
EnviratronFileNameParser(filepath) ==
    parse_calls(<<"parse_ordinal", "parse_chamber_id", "parse_datetime",
                  "parse_file_type", "parse_physical_dimensions">>,
                init_fields(filepath))

---------------------------------------------------------------------------
(* The paths the constructor is given *)

\* the most tokens drawn freely after a filename's head
MaxTail == 4
\* the most integer tokens taken from a row of DateRows
MaxInts == 8
\* the most directories above a filename of ChamberPaths
MaxDepth == 2

RECURSIVE Join(_, _)
Join(list, sep) ==
    IF list = <<>> THEN ""
    ELSE IF Len(list) = 1 THEN list[1]
    ELSE list[1] \o sep \o Join(Tail(list), sep)

\* every sequence over S of at most n elements
SeqsUpTo(S, n) == UNION {[1..k -> S] : k \in 0..n}

Prefix(list, n) == SubSeq(list, 1, IF n < Len(list) THEN n ELSE Len(list))

\* ordinal, year, month, day, hour, minute, second, and what may follow
DateRows ==
    { <<"2", "2018", "8", "17", "9", "40", "58", "63", "5">>,
      <<"0", "2", "2018", "8", "17", "9", "40", "58", "63">>,
      <<"7", "2020", "2", "29", "23", "59", "59", "883", "5">>,
      <<"7", "2019", "2", "29", "23", "59", "59", "883", "5">>,
      <<"7", "1900", "2", "29", "0", "0", "0", "883", "5">>,
      <<"12", "2018", "13", "10", "9", "3", "23", "608", "5">>,
      <<"12", "2018", "4", "31", "9", "3", "23", "608", "5">>,
      <<"12", "2018", "8", "10", "24", "3", "23", "608", "5">>,
      <<"12", "2018", "8", "10", "9", "3", "60", "608", "5">>,
      <<"-3", "0", "8", "10", "9", "3", "23", "608", "5">>,
      <<"12", "2018", "8", "10", "9", "3", "99999999999", "608", "5">>,
      <<"12", "10000", "8", "10", "9", "60", "23", "608", "5">> }

\* filenames that carry an ordinal and a capture time, whole or cut short
DatedPaths ==
    { dir \o Join(<<head>> \o Prefix(row, n), "_") \o ext :
        dir \in {"", "/data/chamber_5/c1_2018/"},
        head \in {"t", "hsr", "hsr_m_0_d_rp", "thermo_pose"},
        row \in DateRows,
        n \in 0..MaxInts,
        ext \in {".yml", ".bin", "_f_30_w_1024_h_56.bin", ".a.bin", ""} }

\* filenames that carry the f, w and h markers in every order
MarkedPaths ==
    { Join(<<head>> \o tail, "_") \o ext :
        head \in {"x", "thermo", "rgb", "hs", "hsr", "a_hs_r", "a_hs_rd", "hs_a_hs_r"},
        tail \in SeqsUpTo({"f", "w", "h", "7"}, MaxTail),
        ext \in {".bin", ".jpg", ".npy", ".a.bin"} }

\* filenames of every modality, and of none
TypedPaths ==
    { stem \o ext :
        stem \in {"x", "rgb_pose_1", "rgb_1", "rgb1", "PAM_1", "pam_1", "ir_1",
                  "depth_1", "depth_pose_1", "a_hs_rd_1", "ab_hs_rd_1",
                  "hsr_m_0_d_rp_1", "a_hs_rw_1", "hsr_m_0_w_rp_1",
                  "hsr_m_0_d_rp_w_rp_1", "hs_1", "a_hs_1_pose", "hsr_1_pose",
                  "hsr_1", "a_hs_1", "thermo_pose_1", "thermo_1", "thermo"},
        ext \in {".pcd", ".yml", ".jpg", ".bin", ".csv", ".npy", ".BIN", ""} }

\* paths with and without a chamber directory
ChamberPaths ==
    { Join(dirs \o <<filename>>, "/") :
        dirs \in SeqsUpTo({"d", "chamber_5", "chamber_x", "lab_chamber_7", ""}, MaxDepth),
        filename \in {"t_1.bin", "a.chamber_9", "chamber_3.bin", "t"} }

Inputs == (DatedPaths \cup MarkedPaths \cup TypedPaths \cup ChamberPaths) \ {""}

---------------------------------------------------------------------------
(* The constructor, one call at a time.  An exception leaves pc where it   *)
(* was raised and self.exc set: nothing runs after it.                     *)

Running(at) == pc = at /\ self.exc = ""

Idle ==
    /\ walk = <<>> /\ overwrite_existing = FALSE /\ pos = 0
    /\ out_dirs = {} /\ out_files = {} /\ log = <<>> /\ mainpc = "idle"

Init ==
    /\ path \in Inputs
    /\ pc = "__init__"
    /\ self = NewObject
    /\ Idle

Enter ==
    /\ Running("__init__")
    /\ self' = init_fields(path)
    /\ pc' = IF self'.exc = "" THEN "parse_ordinal" ELSE pc
    /\ UNCHANGED <<path, main_vars>>

CallParseOrdinal ==
    /\ Running("parse_ordinal")
    /\ self' = parse_ordinal(self)
    /\ pc' = IF self'.exc = "" THEN "parse_chamber_id" ELSE pc
    /\ UNCHANGED <<path, main_vars>>

CallParseChamberId ==
    /\ Running("parse_chamber_id")
    /\ self' = parse_chamber_id(self)
    /\ pc' = IF self'.exc = "" THEN "parse_datetime" ELSE pc
    /\ UNCHANGED <<path, main_vars>>

CallParseDatetime ==
    /\ Running("parse_datetime")
    /\ self' = parse_datetime(self)
    /\ pc' = IF self'.exc = "" THEN "parse_file_type" ELSE pc
    /\ UNCHANGED <<path, main_vars>>

CallParseFileType ==
    /\ Running("parse_file_type")
    /\ self' = parse_file_type(self)
    /\ pc' = IF self'.exc = "" THEN "parse_physical_dimensions" ELSE pc
    /\ UNCHANGED <<path, main_vars>>

CallParsePhysicalDimensions ==
    /\ Running("parse_physical_dimensions")
    /\ self' = parse_physical_dimensions(self)
    /\ pc' = IF self'.exc = "" THEN "done" ELSE pc
    /\ UNCHANGED <<path, main_vars>>

Next ==
    \/ Enter
    \/ CallParseOrdinal
    \/ CallParseChamberId
    \/ CallParseDatetime
    \/ CallParseFileType
    \/ CallParsePhysicalDimensions

Spec == Init /\ [][Next]_vars

---------------------------------------------------------------------------
(* What the specification says of a path, in its own terms *)

Segments == Split(path, "/")
FileName == Segments[Len(Segments)]
Ancestors == SubSeq(Segments, 1, Len(Segments) - 1)

\* the filename cut at its last '.', and its '_'-separated tokens
Stem == RSplit1(FileName, ".")[1]
StemTokens == Split(Stem, "_")
\* the tokens that parse as integers, in order, as integers
StemInts ==
    LET kept == SelectSeq(StemTokens, IsInt)
    IN [i \in 1..Len(kept) |-> ParseInt(kept[i])]

Returned(call) ==
    \/ pc = "done"
    \/ /\ call = "__init__" /\ pc # "__init__"
    \/ /\ call = "parse_ordinal"
       /\ pc \in {"parse_chamber_id", "parse_datetime", "parse_file_type",
                  "parse_physical_dimensions"}
    \/ /\ call = "parse_chamber_id"
       /\ pc \in {"parse_datetime", "parse_file_type", "parse_physical_dimensions"}
    \/ /\ call = "parse_datetime"
       /\ pc \in {"parse_file_type", "parse_physical_dimensions"}
    \/ /\ call = "parse_file_type" /\ pc = "parse_physical_dimensions"

RaisedIn(call) == pc = call /\ self.exc # ""

\* C1: for every non-empty path the constructor completes without raising:
\* no exception ever leaves it
C1_ConstructorNeverRaises == path # "" => self.exc = ""

\* the table entries whose pattern matches the whole filename
Matching == {i \in 1..Len(filename_to_type_mapping) :
                fnmatch(FileName, filename_to_type_mapping[i][1])}

\* C2: once parse_file_type has returned, the modality is the label of the
\* first table entry whose pattern matches the filename, whatever later
\* entries match as well, and is None when no entry matches
C2_FirstMatchWins ==
    Returned("parse_file_type") =>
        IF Matching = {} THEN self.type = "None"
        ELSE \E i \in Matching :
                /\ \A j \in Matching : i <= j
                /\ self.type = filename_to_type_mapping[i][2]

\* a filename that matches two entries with different labels has been classified
C2_Witness ==
    /\ pc = "done"
    /\ \E i, j \in Matching :
          /\ i < j
          /\ filename_to_type_mapping[i][2] # filename_to_type_mapping[j][2]
          /\ self.type = filename_to_type_mapping[i][2]

\* C3: once parse_ordinal has returned, the ordinal is StemInts[2] for a
\* filename matching hsr_*.* and StemInts[1] otherwise (Python's ints[1] and
\* ints[0]), and is unset when StemInts is too short
C3_OrdinalFromStemInts ==
    Returned("parse_ordinal") =>
        LET want == IF fnmatch(FileName, "hsr_*.*") THEN 2 ELSE 1
        IN IF want <= Len(StemInts)
           THEN self.ordinal = StemInts[want]
           ELSE ~IsSet(self.ordinal)

\* the integer tokens parse_datetime reads, by the specification
PrunedInts ==
    IF fnmatch(FileName, "hsr_*.*") /\ StemInts # <<>> THEN Tail(StemInts) ELSE StemInts

\* positions 1 to 6 (counted from 0) exist and form a calendar instant
IsCalendarInstant(ints) ==
    /\ Len(ints) >= 7
    /\ \A i \in 2..7 : ints[i].k = "int"
    /\ ValidDatetime(ints[2].n, ints[3].n, ints[4].n, ints[5].n, ints[6].n, ints[7].n)

CaptureTime == <<self.year, self.month, self.day, self.hour, self.minute, self.second>>

\* C4: once parse_datetime has returned or raised, year to second are the
\* pruned integer tokens at positions 1 to 6 when those form a calendar
\* instant, and are all unset otherwise; in no state is the group set in part
C4_CaptureTimeAllOrNothing ==
    /\ (Returned("parse_datetime") \/ RaisedIn("parse_datetime")) =>
          IF IsCalendarInstant(PrunedInts)
          THEN CaptureTime = SubSeq(PrunedInts, 2, 7)
          ELSE \A i \in 1..6 : ~IsSet(CaptureTime[i])
    /\ \/ \A i \in 1..6 : IsSet(CaptureTime[i])
       \/ \A i \in 1..6 : ~IsSet(CaptureTime[i])

\* an hsr_ filename whose first integer was dropped and whose sub-second
\* counter was ignored has its capture time set
C4_Witness ==
    /\ pc = "done"
    /\ fnmatch(FileName, "hsr_*.*")
    /\ Len(PrunedInts) > 7
    /\ \A i \in 1..6 : IsSet(CaptureTime[i])

\* the constant the specification gives a dimension by filename pattern
FallbackHeight ==
    IF fnmatch(FileName, "thermo_*.jpg") \/ fnmatch(FileName, "thermo_*.bin") THEN IntV(480)
    ELSE IF fnmatch(FileName, "rgb_*.jpg") THEN IntV(1303) ELSE Unset
FallbackWidth ==
    IF fnmatch(FileName, "thermo_*.jpg") \/ fnmatch(FileName, "thermo_*.bin") THEN IntV(640)
    ELSE IF fnmatch(FileName, "rgb_*.jpg") THEN IntV(156) ELSE Unset

\* the integer after the last marker token of StemTokens, or the fallback when
\* the marker is absent, is the last token, or is followed by a non-integer
MarkedValue(marker, fallback) ==
    LET I == {i \in 1..Len(StemTokens) : StemTokens[i] = marker}
        last == CHOOSE i \in I : \A j \in I : j <= i
    IN IF I = {} THEN fallback
       ELSE IF last = Len(StemTokens) THEN fallback
       ELSE IF ~IsInt(StemTokens[last + 1]) THEN fallback
       ELSE ParseInt(StemTokens[last + 1])

\* C5: once parse_physical_dimensions has returned or raised, height is the
\* integer after the last 'f' token of the stem and width the integer after
\* its last 'w' token, each replaced by its pattern constant (or left unset
\* when no pattern matches) when the marker is absent, last, or followed by
\* a non-integer
C5_DimensionsFromStemTokens ==
    (pc = "done" \/ RaisedIn("parse_physical_dimensions")) =>
        /\ self.height = MarkedValue("f", FallbackHeight)
        /\ self.width = MarkedValue("w", FallbackWidth)

\* the chamber the specification reads from the directories above the file
AncestorChambers == SelectSeq(Ancestors, LAMBDA s : Contains(s, "chamber_"))

\* C6: once parse_chamber_id has returned or raised, chamber_id is decided by
\* the ancestor segments alone: unset when none contains 'chamber_', else the
\* integer after the last '_' of the first that does
C6_ChamberFromAncestorsOnly ==
    (Returned("parse_chamber_id") \/ RaisedIn("parse_chamber_id")) =>
        IF AncestorChambers = <<>> THEN ~IsSet(self.chamber_id)
        ELSE LET pieces == Split(AncestorChambers[1], "_")
                 last == pieces[Len(pieces)]
             IN IsInt(last) => self.chamber_id = ParseInt(last)

HyperspectralLabels ==
    {"hyperspectral reference dark", "hyperspectral reference white",
     "hyperspectral", "hyperspectral pose", "hyperspectral reference pose",
     "hyperspectral csv"}

\* C7 as stated: in every record, bands is set only if the modality is one of
\* the hyperspectral labels
C7_BandsOnlyForHyperspectralModality ==
    pc = "done" => (IsSet(self.bands) => self.type \in HyperspectralLabels)

\* C7 amended: in every state, bands is set only if the filename matches one
\* of the globs hs*.bin, hs_*.npy, *_hs_r*.bin
C7_BandsOnlyForBandGlobs ==
    IsSet(self.bands) =>
        \/ fnmatch(FileName, "hs*.bin")
        \/ fnmatch(FileName, "hs_*.npy")
        \/ fnmatch(FileName, "*_hs_r*.bin")

\* a record with bands set and no modality
C7_Witness == pc = "done" /\ IsSet(self.bands) /\ self.type = "None"

\* the tokens parse_physical_dimensions reads
DimensionTokens == Split(BeforeFirst(FileName, "."), "_")
HPositions == {i \in 1..Len(DimensionTokens) : DimensionTokens[i] = "h"}
FirstH == CHOOSE i \in HPositions : \A j \in HPositions : i <= j
LastH == CHOOSE i \in HPositions : \A j \in HPositions : j <= i
FollowedByInt(i) == i < Len(DimensionTokens) /\ IsInt(DimensionTokens[i + 1])
FollowedByOther(i) == i < Len(DimensionTokens) /\ ~IsInt(DimensionTokens[i + 1])

\* C8: once parse_physical_dimensions has returned or raised: for a filename
\* matching hs*.bin or hs_*.npy (and not *_hs_r*.bin, whose rule runs later),
\* bands is the integer after the first 'h' token, and the call returns with
\* bands 56 when that token is no integer; for a filename matching
\* *_hs_r*.bin, bands is the integer after the last 'h' token, and the call
\* returns with bands 56 when there is no 'h' token
C8_BandFallbacks ==
    (pc = "done" \/ RaisedIn("parse_physical_dimensions")) =>
        /\ ( /\ fnmatch(FileName, "hs*.bin") \/ fnmatch(FileName, "hs_*.npy")
             /\ ~fnmatch(FileName, "*_hs_r*.bin")
             /\ HPositions # {} ) =>
               /\ FollowedByInt(FirstH) => self.bands = ParseInt(DimensionTokens[FirstH + 1])
               /\ FollowedByOther(FirstH) => pc = "done" /\ self.bands = IntV(56)
        /\ fnmatch(FileName, "*_hs_r*.bin") =>
               /\ (HPositions # {} /\ FollowedByInt(LastH)) =>
                      self.bands = ParseInt(DimensionTokens[LastH + 1])
               /\ HPositions = {} => pc = "done" /\ self.bands = IntV(56)

---------------------------------------------------------------------------
(* main(input_dir, output_dir, overwrite_existing) of the image pipeline.  *)
(* The files are taken to hold arrays of 56 * height * width numbers, so   *)
(* that np.load and the reshapes succeed whenever height and width are set.*)

\* the most files os.walk yields in a run
MaxFiles == 2

input_dir == "in"
output_dir == "out"

\* the directories os.walk visits, parents first
Roots == <<"in", "in/s">>

FileNames == {"hs_1_f_2_w_3.npy", "hs_1_f_2_w_3.n.npy", "hs_2_f_2_w_3.npy",
              "hs_3.npy", "README"}

RootRank(root) == CHOOSE i \in 1..Len(Roots) : Roots[i] = root

\* what os.walk may yield: each file once, directory by directory, the files
\* of a directory in any order
Walks ==
    {w \in SeqsUpTo({Roots[i] : i \in 1..Len(Roots)} \X FileNames, MaxFiles) :
        \A i, j \in 1..Len(w) :
            i < j => w[i] # w[j] /\ RootRank(w[i][1]) <= RootRank(w[j][1])}

\* lines 62 to 70: the image path of a file
output_dir_structure(root) == Replace(root, input_dir, output_dir)
median_output_filename(filename) == RStrip(filename, ".npy") \o ".png"
image_path(root, filename) ==
    output_dir_structure(root) \o "/" \o median_output_filename(filename)

\* Path(d).mkdir(parents=True, exist_ok=True): d and the directories above it
mkdir_parents(d) ==
    LET segs == Split(d, "/")
    IN {Join(SubSeq(segs, 1, i), "/") : i \in 1..Len(segs)}

\* load_hyperspectral_numpy_data(path) and the reshape to image_size: the
\* exception they raise, "" when there is none
load_hyperspectral_numpy_data(filepath) ==
    LET input_meta == EnviratronFileNameParser(filepath)
    IN IF input_meta.exc # "" THEN input_meta.exc
       ELSE IF ~IsSet(input_meta.width) \/ ~IsSet(input_meta.height)
            THEN "AttributeError"
       ELSE ""

InitMain ==
    /\ path = "" /\ pc = "idle" /\ self = NewObject
    /\ walk \in Walks
    /\ overwrite_existing \in BOOLEAN
    /\ out_files \in SUBSET {image_path(walk[i][1], walk[i][2]) : i \in 1..Len(walk)}
    /\ out_dirs = {}
    /\ pos = 0
    /\ log = <<>>
    /\ mainpc = "loop"

\* one pass of the loop body, for the next file of the walk
LoopBody ==
    /\ mainpc = "loop"
    /\ pos < Len(walk)
    /\ LET root == walk[pos + 1][1]
           filename == walk[pos + 1][2]
           meta_data == EnviratronFileNameParser(filename)
           image == image_path(root, filename)
           image_exists == image \in out_files
           loaded == load_hyperspectral_numpy_data(root \o "/" \o filename)
           entry == [root |-> root, filename |-> filename, image |-> image,
                     image_exists |-> image_exists, did |-> ""]
       IN IF meta_data.exc # ""
          THEN /\ mainpc' = "raised"
               /\ log' = Append(log, [entry EXCEPT !.did = meta_data.exc])
               /\ UNCHANGED <<out_dirs, out_files>>
          ELSE /\ out_dirs' = out_dirs \cup mkdir_parents(output_dir_structure(root))
               /\ IF image_exists /\ ~overwrite_existing
                  THEN /\ log' = Append(log, [entry EXCEPT !.did = "skipped"])
                       /\ UNCHANGED <<out_files, mainpc>>
                  ELSE IF loaded # ""
                  THEN /\ mainpc' = "raised"
                       /\ log' = Append(log, [entry EXCEPT !.did = loaded])
                       /\ UNCHANGED out_files
                  ELSE /\ out_files' = out_files \cup {image}
                       /\ log' = Append(log, [entry EXCEPT !.did = "written"])
                       /\ UNCHANGED mainpc
    /\ pos' = pos + 1
    /\ UNCHANGED <<walk, overwrite_existing, parser_vars>>

\* os.walk is exhausted: main returns
LoopExit ==
    /\ mainpc = "loop"
    /\ pos = Len(walk)
    /\ mainpc' = "done"
    /\ UNCHANGED <<walk, overwrite_existing, pos, out_dirs, out_files, log, parser_vars>>

NextMain == LoopBody \/ LoopExit

SpecMain == InitMain /\ [][NextMain]_vars

Written == {log[i].image : i \in {j \in 1..Len(log) : log[j].did = "written"}}

\* C9: with overwrite_existing false, a file whose image exists when the file
\* is reached is skipped and that image path is not written in the run; with
\* overwrite_existing true no file is skipped, and when the run has ended
\* every file's image has been written
C9_SkipUnlessOverwrite ==
    /\ ~overwrite_existing =>
          \A i \in 1..Len(log) :
              log[i].image_exists => log[i].did = "skipped" /\ log[i].image \notin Written
    /\ overwrite_existing =>
          /\ \A i \in 1..Len(log) : log[i].did # "skipped"
          /\ mainpc \in {"done", "raised"} =>
                \A i \in 1..Len(walk) : image_path(walk[i][1], walk[i][2]) \in Written

\* C10: two files of one directory with different names that the loop has
\* taken never share an image path, and no file is skipped because of the
\* image written for an earlier file of the run
C10_DistinctImagePaths ==
    \A i, j \in 1..Len(log) :
        i < j =>
            /\ (log[i].root = log[j].root /\ log[i].filename # log[j].filename)
                  => log[i].image # log[j].image
            /\ (log[i].did = "written" /\ log[j].did = "skipped")
                  => log[i].image # log[j].image

====
